---- MODULE Spec2Model ----
(***************************************************************************)
(* A model of minesweeper.py: the Minesweeper board (ground truth), the    *)
(* Sentence class and the MinesweeperAI knowledge base with add_knowledge, *)
(* make_safe_move and make_random_move.                                    *)
(*                                                                         *)
(* Cells are pairs <<row, col>>.  A Sentence is a record                   *)
(* [cells |-> set of cells, count |-> integer]; the knowledge base is the  *)
(* Python list self.knowledge, a sequence of sentences whose order is kept *)
(* because add_knowledge iterates it (and a copy of it) in list order.     *)
(***************************************************************************)
EXTENDS Integers, Sequences, FiniteSets

\* The instance: Minesweeper(height=Height, width=Width, mines=Mines) and
\* MinesweeperAI(height=Height, width=Width).
Height == 3
Width == 3
Mines == 2

\* Bounds of the exploration: at most MaxCalls calls of the AI's methods in
\* one game when the calls come in any order; when the driver's loop is played
\* to the end of the game, no reveal once the AI holds MaxSentences sentences.
MaxCalls == 3
MaxSentences == 8

\* Python's None, as a return value and as an absent argument.
None == <<>>

Cells == (0 .. Height - 1) \X (0 .. Width - 1)

VARIABLES
    board,       \* Minesweeper.mines: the cells that hold a mine
    revealed,    \* the driver's record of the cells handed to add_knowledge
    moves_made,  \* MinesweeperAI.moves_made
    mines,       \* MinesweeperAI.mines
    safes,       \* MinesweeperAI.safes
    knowledge,   \* MinesweeperAI.knowledge
    call,        \* the last call: [op, cell, count]
    ret,         \* what the last call returned
    calls,       \* number of calls of the AI's methods so far
    frame        \* the local variables of a call of add_knowledge that is
                 \* being followed statement by statement; None otherwise

vars == <<board, revealed, moves_made, mines, safes, knowledge, call, ret, calls, frame>>

---------------------------------------------------------------------------
\* Minesweeper (the board)

\* The cells within one row and column of cell, in bounds, cell excluded.
Adjacent(cell) ==
    {c \in Cells : c # cell /\ c[1] - cell[1] \in {-1, 0, 1}
                            /\ c[2] - cell[2] \in {-1, 0, 1}}

\* Minesweeper.nearby_mines
nearby_mines(b, cell) == Cardinality(Adjacent(cell) \cap b)

---------------------------------------------------------------------------
\* Sentence

Sentence(cells, count) == [cells |-> cells, count |-> count]

\* Sentence.known_mines
known_mines(s) == IF Cardinality(s.cells) = s.count THEN s.cells ELSE {}

\* Sentence.known_safes
known_safes(s) == IF s.count = 0 THEN s.cells ELSE {}

\* sentence_mark_mine with `self.count -= 1` left out.
sentence_mark_mine_no_decrement(s, cell) ==
    IF cell \in s.cells
    THEN [cells |-> s.cells \ {cell}, count |-> s.count]
    ELSE s

\* Sentence.mark_mine
sentence_mark_mine(s, cell) ==
    IF cell \in s.cells
    THEN [cells |-> s.cells \ {cell}, count |-> s.count - 1]
    ELSE s

\* Sentence.mark_safe lowering the count as Sentence.mark_mine does.
sentence_mark_safe_decrement(s, cell) ==
    IF cell \in s.cells
    THEN [cells |-> s.cells \ {cell}, count |-> s.count - 1]
    ELSE s

\* Sentence.mark_safe
sentence_mark_safe(s, cell) ==
    IF cell \in s.cells
    THEN [cells |-> s.cells \ {cell}, count |-> s.count]
    ELSE s

---------------------------------------------------------------------------
\* MinesweeperAI.  Its fields travel through the operators below as a record
\* ai = [moves_made, mines, safes, knowledge].

\* MinesweeperAI.mark_mine
mark_mine(ai, cell) ==
    [ai EXCEPT !.mines = @ \cup {cell},
               !.knowledge = [i \in 1 .. Len(@) |-> sentence_mark_mine(@[i], cell)]]

\* MinesweeperAI.mark_safe
mark_safe(ai, cell) ==
    [ai EXCEPT !.safes = @ \cup {cell},
               !.knowledge = [i \in 1 .. Len(@) |-> sentence_mark_safe(@[i], cell)]]

\* `for c in S: self.mark_safe(c)` over a set S that the loop does not change
\* (known_safes() returns a copy).  The calls commute, so any order will do.
RECURSIVE mark_safe_all(_, _)
mark_safe_all(ai, S) ==
    IF S = {} THEN ai
    ELSE LET c == CHOOSE x \in S : TRUE
         IN mark_safe_all(mark_safe(ai, c), S \ {c})

\* `for c in S: self.mark_mine(c)`, likewise.
RECURSIVE mark_mine_all(_, _)
mark_mine_all(ai, S) ==
    IF S = {} THEN ai
    ELSE LET c == CHOOSE x \in S : TRUE
         IN mark_mine_all(mark_mine(ai, c), S \ {c})

\* neighboring_cells with the `elif (row,col) in self.safes: continue` branch
\* left out.
neighboring_cells_with_safes(ai, cell) ==
    [neighbors |-> {c \in Adjacent(cell) : c \notin ai.mines},
     mines |-> Cardinality(Adjacent(cell) \cap ai.mines)]

\* MinesweeperAI.neighboring_cells: the in-bounds neighbours of cell that are
\* neither known mines nor known safes, and the number of known mines among
\* the neighbours.  (`(row,col) is not self.moves_made` is always true.)
neighboring_cells(ai, cell) ==
    [neighbors |-> {c \in Adjacent(cell) : c \notin ai.mines /\ c \notin ai.safes},
     mines |-> Cardinality(Adjacent(cell) \cap ai.mines)]

\* Whether sentence s equals (Sentence.__eq__) some member of list L.
sentence_in(s, L) == \E i \in 1 .. Len(L) : L[i] = s

\* new_sentence with `count -= detected_mines` left out.
new_sentence_unadjusted(ai, cell, count) ==
    LET nc == neighboring_cells([ai EXCEPT !.safes = @ \cup {cell}], cell)
    IN Sentence(nc.neighbors, count)

\* add_knowledge steps 1-3: record the move, add the cell to safes (a plain
\* set add, not mark_safe), build the new sentence and append it unless an
\* equal one is held.
new_sentence(ai, cell, count) ==
    LET nc == neighboring_cells([ai EXCEPT !.safes = @ \cup {cell}], cell)
    IN Sentence(nc.neighbors, count - nc.mines)

\* add_sentence with step 2, `self.safes.add(cell)`, left out.
add_sentence_no_safe(ai, cell, count) ==
    LET s == new_sentence(ai, cell, count)
    IN [ai EXCEPT !.moves_made = @ \cup {cell},
                  !.knowledge = IF sentence_in(s, @) THEN @ ELSE Append(@, s)]

add_sentence(ai, cell, count) ==
    LET s == new_sentence(ai, cell, count)
    IN [ai EXCEPT !.moves_made = @ \cup {cell},
                  !.safes = @ \cup {cell},
                  !.knowledge = IF sentence_in(s, @) THEN @ ELSE Append(@, s)]

\* simple_facts_of with the known mines not marked.
simple_facts_of_safes_only(ai, i) ==
    mark_safe_all(ai, known_safes(ai.knowledge[i]))

\* add_knowledge step 4, one sentence: mark its known safes, then the known
\* mines of the sentence as it is after that.
simple_facts_of(ai, i) ==
    LET a1 == mark_safe_all(ai, known_safes(ai.knowledge[i]))
    IN mark_mine_all(a1, known_mines(a1.knowledge[i]))

\* simple_facts stopping one sentence short of the end of the list.
RECURSIVE simple_facts_short(_, _)
simple_facts_short(ai, i) ==
    IF i >= Len(ai.knowledge) THEN ai
    ELSE simple_facts_short(simple_facts_of(ai, i), i + 1)

\* add_knowledge step 4: one pass over self.knowledge in list order.
RECURSIVE simple_facts(_, _)
simple_facts(ai, i) ==
    IF i > Len(ai.knowledge) THEN ai
    ELSE simple_facts(simple_facts_of(ai, i), i + 1)

\* list.remove(x): the list without its first element equal to x.
RECURSIVE list_remove(_, _)
list_remove(L, x) ==
    IF L = <<>> THEN L
    ELSE IF Head(L) = x THEN Tail(L)
    ELSE <<Head(L)>> \o list_remove(Tail(L), x)

\* resolve_pair with the `if subset <= bigset` test left out.
resolve_pair_no_subset_test(ai, sentence1, sentence2) ==
    LET n1 == Cardinality(sentence1.cells)
        n2 == Cardinality(sentence2.cells)
        small == IF n2 < n1 THEN sentence2 ELSE sentence1
        big == IF n2 < n1 THEN sentence1 ELSE sentence2
        diff_set == big.cells \ small.cells
        diff_count == big.count - small.count
    IN IF n1 = n2 \/ n1 = 0 \/ n2 = 0 THEN ai
       ELSE IF Cardinality(diff_set) = 1
            THEN LET c == CHOOSE x \in diff_set : TRUE
                 IN IF diff_count = 0 THEN mark_safe(ai, c)
                    ELSE IF diff_count = 1 THEN mark_mine(ai, c)
                    ELSE ai
            ELSE [ai EXCEPT !.knowledge = Append(@, Sentence(diff_set, diff_count))]

\* resolve_pair with the larger sentence's count taken as diff_count.
resolve_pair_big_count(ai, sentence1, sentence2) ==
    LET n1 == Cardinality(sentence1.cells)
        n2 == Cardinality(sentence2.cells)
        small == IF n2 < n1 THEN sentence2 ELSE sentence1
        big == IF n2 < n1 THEN sentence1 ELSE sentence2
        diff_set == big.cells \ small.cells
        diff_count == big.count
    IN IF n1 = n2 \/ n1 = 0 \/ n2 = 0 THEN ai
       ELSE IF ~(small.cells \subseteq big.cells) THEN ai
       ELSE IF Cardinality(diff_set) = 1
            THEN LET c == CHOOSE x \in diff_set : TRUE
                 IN IF diff_count = 0 THEN mark_safe(ai, c)
                    ELSE IF diff_count = 1 THEN mark_mine(ai, c)
                    ELSE ai
            ELSE [ai EXCEPT !.knowledge = Append(@, Sentence(diff_set, diff_count))]

\* add_knowledge step 5, the body of the inner loop for one pair of sentences
\* of the copied list: nothing when either is empty or they have the same
\* size or the smaller is no subset of the larger; else the difference is
\* marked (one cell, count 0 or 1) or appended as a new sentence (more cells).
resolve_pair(ai, sentence1, sentence2) ==
    LET n1 == Cardinality(sentence1.cells)
        n2 == Cardinality(sentence2.cells)
        small == IF n2 < n1 THEN sentence2 ELSE sentence1
        big == IF n2 < n1 THEN sentence1 ELSE sentence2
        diff_set == big.cells \ small.cells
        diff_count == big.count - small.count
    IN IF n1 = n2 \/ n1 = 0 \/ n2 = 0 THEN ai
       ELSE IF ~(small.cells \subseteq big.cells) THEN ai
       ELSE IF Cardinality(diff_set) = 1
            THEN LET c == CHOOSE x \in diff_set : TRUE
                 IN IF diff_count = 0 THEN mark_safe(ai, c)
                    ELSE IF diff_count = 1 THEN mark_mine(ai, c)
                    ELSE ai
            ELSE [ai EXCEPT !.knowledge = Append(@, Sentence(diff_set, diff_count))]

\* The inner loop `for sentence2 in known_sentences`.
RECURSIVE inner_loop(_, _, _, _)
inner_loop(ai, sentence1, L, j) ==
    IF j > Len(L) THEN ai
    ELSE inner_loop(resolve_pair(ai, sentence1, L[j]), sentence1, L, j + 1)

\* The outer loop `for sentence1 in known_sentences`, whose body removes
\* sentence1 from the list it iterates: the list iterator reads position i
\* (counted from 1 here), the list loses its first element equal to that,
\* and the iterator moves on to position i + 1 of the shortened list.
RECURSIVE outer_loop(_, _, _)
outer_loop(ai, L, i) ==
    IF i > Len(L) THEN ai
    ELSE LET sentence1 == L[i]
             rest == list_remove(L, sentence1)
         IN outer_loop(inner_loop(ai, sentence1, rest, 1), rest, i + 1)

\* add_knowledge step 5 on known_sentences = copy.deepcopy(self.knowledge).
subset_resolution(ai) == outer_loop(ai, ai.knowledge, 1)

\* MinesweeperAI.add_knowledge
add_knowledge(ai, cell, count) ==
    subset_resolution(simple_facts(add_sentence(ai, cell, count), 1))

---------------------------------------------------------------------------
\* The state machine

AI == [moves_made |-> moves_made, mines |-> mines, safes |-> safes,
       knowledge |-> knowledge]

\* Minesweeper.__init__ (mines are added at random cells until the board
\* holds Mines of them: any placement of Mines mines) and
\* MinesweeperAI.__init__.
Init ==
    /\ board \in {b \in SUBSET Cells : Cardinality(b) = Mines}
    /\ revealed = {}
    /\ moves_made = {}
    /\ mines = {}
    /\ safes = {}
    /\ knowledge = <<>>
    /\ call = [op |-> "init", cell |-> None, count |-> 0]
    /\ ret = None
    /\ calls = 0
    /\ frame = None

\* The effect of ai.add_knowledge(cell, count) on the state.
DoAddKnowledge(cell, count) ==
    LET ai == add_knowledge(AI, cell, count)
    IN /\ moves_made' = ai.moves_made
       /\ mines' = ai.mines
       /\ safes' = ai.safes
       /\ knowledge' = ai.knowledge
       /\ revealed' = revealed \cup {cell}
       /\ call' = [op |-> "add_knowledge", cell |-> cell, count |-> count]
       /\ ret' = None
       /\ calls' = calls + 1
       /\ UNCHANGED <<board, frame>>

\* The driver reveals a cell that holds no mine and was not revealed before,
\* and tells the AI the board's count for it.
AddKnowledge ==
    /\ calls < MaxCalls
    /\ \E cell \in Cells \ (board \cup revealed) :
          DoAddKnowledge(cell, nearby_mines(board, cell))

\* make_safe_move taking the move out of self.safes (safes.pop()).
MakeSafeMovePop ==
    /\ calls < MaxCalls
    /\ \/ \E move \in safes \ moves_made :
             /\ moves_made' = moves_made \cup {move}
             /\ safes' = safes \ {move}
             /\ ret' = move
       \/ /\ safes \ moves_made = {}
          /\ ret' = None
          /\ UNCHANGED <<moves_made, safes>>
    /\ call' = [op |-> "make_safe_move", cell |-> None, count |-> 0]
    /\ calls' = calls + 1
    /\ UNCHANGED <<board, revealed, mines, knowledge, frame>>

\* make_safe_move without the `move in self.moves_made` test.
make_safe_move_any ==
    /\ \/ \E move \in safes :
             /\ moves_made' = moves_made \cup {move}
             /\ ret' = move
       \/ /\ safes = {}
          /\ ret' = None
          /\ UNCHANGED moves_made
    /\ call' = [op |-> "make_safe_move", cell |-> None, count |-> 0]
    /\ calls' = calls + 1
    /\ UNCHANGED <<board, revealed, mines, safes, knowledge, frame>>

\* MinesweeperAI.make_safe_move: the first member of self.safes, in the set's
\* iteration order, that is not in moves_made (any such member here); None
\* when there is none.
make_safe_move ==
    /\ \/ \E move \in safes \ moves_made :
             /\ moves_made' = moves_made \cup {move}
             /\ ret' = move
       \/ /\ safes \ moves_made = {}
          /\ ret' = None
          /\ UNCHANGED moves_made
    /\ call' = [op |-> "make_safe_move", cell |-> None, count |-> 0]
    /\ calls' = calls + 1
    /\ UNCHANGED <<board, revealed, mines, safes, knowledge, frame>>

\* A call of make_safe_move at any time of a game of at most MaxCalls calls.
MakeSafeMove == calls < MaxCalls /\ make_safe_move

\* make_random_move without the `pot_cell not in self.moves_made` test.
MakeRandomMoveAgain ==
    /\ calls < MaxCalls
    /\ LET potential_move == {c \in Cells : c \notin mines}
       IN \/ \E move \in potential_move :
                /\ moves_made' = moves_made \cup {move}
                /\ ret' = move
          \/ /\ potential_move = {}
             /\ ret' = None
             /\ UNCHANGED moves_made
    /\ call' = [op |-> "make_random_move", cell |-> None, count |-> 0]
    /\ calls' = calls + 1
    /\ UNCHANGED <<board, revealed, mines, safes, knowledge, frame>>

\* make_random_move without the `pot_cell not in self.mines` test.
make_random_move_any_unmade ==
    /\ LET potential_move == {c \in Cells : c \notin moves_made}
       IN \/ \E move \in potential_move :
                /\ moves_made' = moves_made \cup {move}
                /\ ret' = move
          \/ /\ potential_move = {}
             /\ ret' = None
             /\ UNCHANGED moves_made
    /\ call' = [op |-> "make_random_move", cell |-> None, count |-> 0]
    /\ calls' = calls + 1
    /\ UNCHANGED <<board, revealed, mines, safes, knowledge, frame>>

\* MinesweeperAI.make_random_move: random.choice among the board cells that
\* are neither known mines nor moves made; None (the function falls off its
\* end) when there is none.
make_random_move ==
    /\ LET potential_move == {c \in Cells : c \notin mines /\ c \notin moves_made}
       IN \/ \E move \in potential_move :
                /\ moves_made' = moves_made \cup {move}
                /\ ret' = move
          \/ /\ potential_move = {}
             /\ ret' = None
             /\ UNCHANGED moves_made
    /\ call' = [op |-> "make_random_move", cell |-> None, count |-> 0]
    /\ calls' = calls + 1
    /\ UNCHANGED <<board, revealed, mines, safes, knowledge, frame>>

\* A call of make_random_move at any time of a game of at most MaxCalls calls.
MakeRandomMove == calls < MaxCalls /\ make_random_move

Next == AddKnowledge \/ MakeSafeMove \/ MakeRandomMove

Spec == Init /\ [][Next]_vars

\* The driver's loop, played to the end of the game: each turn it asks for a
\* safe move and, when there is none, for a random move; a move that holds
\* no mine is revealed and its count given to add_knowledge; the game ends
\* when the move holds a mine or when no move is left (or, to bound the
\* list, when the AI holds MaxSentences sentences).
GameSafeMove ==
    /\ call.op \in {"init", "add_knowledge"}
    /\ make_safe_move

GameRandomMove ==
    /\ call.op = "make_safe_move"
    /\ ret = None
    /\ make_random_move

GameReveal ==
    /\ call.op \in {"make_safe_move", "make_random_move"}
    /\ ret # None
    /\ ret \notin board
    /\ Len(knowledge) < MaxSentences
    /\ DoAddKnowledge(ret, nearby_mines(board, ret))

NextGame == GameSafeMove \/ GameRandomMove \/ GameReveal

SpecGame == Init /\ [][NextGame]_vars

\* A caller that breaks add_knowledge's contract: it reveals again a cell it
\* has revealed before (with the board's count) ...
AddKnowledgeAgain ==
    /\ calls < MaxCalls
    /\ \E cell \in revealed : DoAddKnowledge(cell, nearby_mines(board, cell))

\* ... or reports for a cell a count below the number of its neighbours that
\* the AI already holds as mines.
AddKnowledgeLow ==
    /\ calls < MaxCalls
    /\ \E cell \in Cells \ (board \cup revealed) :
          \E count \in 0 .. 8 :
             /\ count < neighboring_cells(AI, cell).mines
             /\ DoAddKnowledge(cell, count)

NextMisuse == AddKnowledge \/ AddKnowledgeAgain \/ AddKnowledgeLow

SpecMisuse == Init /\ [][NextMisuse]_vars

---------------------------------------------------------------------------
\* add_knowledge followed statement by statement.  self's fields are the
\* state variables, changed in place as the code changes them; frame holds
\* the locals: the place in the code (pc), the loop positions i and j, the
\* copied list known_sentences and the outer loop's sentence1.

\* The fields of self become those of record ai.
SetAI(ai) ==
    /\ moves_made' = ai.moves_made
    /\ mines' = ai.mines
    /\ safes' = ai.safes
    /\ knowledge' = ai.knowledge

\* The driver calls add_knowledge as its contract says; steps 1-3 run and
\* the loop of step 4 is about to start.
CallAddKnowledge ==
    /\ frame = None
    /\ calls < MaxCalls
    /\ \E cell \in Cells \ (board \cup revealed) :
          LET count == nearby_mines(board, cell)
          IN /\ SetAI(add_sentence(AI, cell, count))
             /\ revealed' = revealed \cup {cell}
             /\ call' = [op |-> "add_knowledge", cell |-> cell, count |-> count]
    /\ frame' = [pc |-> "facts", i |-> 1, j |-> 1, known_sentences |-> <<>>,
                 sentence1 |-> Sentence({}, 0)]
    /\ ret' = None
    /\ calls' = calls + 1
    /\ UNCHANGED board

\* FactsStep with step 4 made a loop that starts the pass again while some
\* sentence has count 0 (an empty sentence has, for ever).
FactsStepRepeat ==
    /\ frame # None
    /\ frame.pc = "facts"
    /\ \/ /\ frame.i <= Len(knowledge)
          /\ SetAI(simple_facts_of(AI, frame.i))
          /\ frame' = [frame EXCEPT !.i = @ + 1]
       \/ /\ frame.i > Len(knowledge)
          /\ frame' = IF \E k \in 1 .. Len(knowledge) : knowledge[k].count = 0
                      THEN [frame EXCEPT !.i = 1]
                      ELSE [frame EXCEPT !.pc = "outer", !.i = 1,
                                         !.known_sentences = knowledge]
          /\ UNCHANGED <<moves_made, mines, safes, knowledge>>
    /\ UNCHANGED <<board, revealed, call, ret, calls>>

\* Step 4: one turn of `for sentence in self.knowledge`, or the end of that
\* loop, where known_sentences = copy.deepcopy(self.knowledge) is taken.
FactsStep ==
    /\ frame # None
    /\ frame.pc = "facts"
    /\ \/ /\ frame.i <= Len(knowledge)
          /\ SetAI(simple_facts_of(AI, frame.i))
          /\ frame' = [frame EXCEPT !.i = @ + 1]
       \/ /\ frame.i > Len(knowledge)
          /\ frame' = [frame EXCEPT !.pc = "outer", !.i = 1,
                                    !.known_sentences = knowledge]
          /\ UNCHANGED <<moves_made, mines, safes, knowledge>>
    /\ UNCHANGED <<board, revealed, call, ret, calls>>

\* Step 5: one turn of `for sentence1 in known_sentences` up to the start of
\* its inner loop (sentence1 is read and removed from the list), or the end
\* of that loop, where add_knowledge returns.
OuterStep ==
    /\ frame # None
    /\ frame.pc = "outer"
    /\ \/ /\ frame.i <= Len(frame.known_sentences)
          /\ LET sentence1 == frame.known_sentences[frame.i]
             IN frame' = [frame EXCEPT
                            !.pc = "inner",
                            !.sentence1 = sentence1,
                            !.known_sentences = list_remove(@, sentence1),
                            !.i = @ + 1,
                            !.j = 1]
       \/ /\ frame.i > Len(frame.known_sentences)
          /\ frame' = None
    /\ UNCHANGED <<board, revealed, moves_made, mines, safes, knowledge,
                   call, ret, calls>>

\* Step 5: one turn of `for sentence2 in known_sentences`, or the end of
\* that loop.
InnerStep ==
    /\ frame # None
    /\ frame.pc = "inner"
    /\ \/ /\ frame.j <= Len(frame.known_sentences)
          /\ SetAI(resolve_pair(AI, frame.sentence1,
                                frame.known_sentences[frame.j]))
          /\ frame' = [frame EXCEPT !.j = @ + 1]
       \/ /\ frame.j > Len(frame.known_sentences)
          /\ frame' = [frame EXCEPT !.pc = "outer"]
          /\ UNCHANGED <<moves_made, mines, safes, knowledge>>
    /\ UNCHANGED <<board, revealed, call, ret, calls>>

\* The statements of a running call: the interpreter always runs the next.
Run == FactsStep \/ OuterStep \/ InnerStep

NextSteps == CallAddKnowledge \/ FactsStep \/ OuterStep \/ InnerStep

SpecSteps == Init /\ [][NextSteps]_vars /\ WF_vars(Run)

---------------------------------------------------------------------------
\* Properties

Selectors == {"make_safe_move", "make_random_move"}

\* The sentences held, as a set of list positions.
Held == 1 .. Len(knowledge)

\* C1 (soundness): with the driver revealing only cells that hold no mine,
\* each once, and reporting the board's true count, every cell in mines holds
\* a mine of the board and no cell in safes does.
Soundness == mines \subseteq board /\ safes \cap board = {}

\* add_knowledge has returned having found both a mine and a safe cell that
\* the driver never revealed.
SoundnessWitness ==
    /\ call.op = "add_knowledge"
    /\ mines # {}
    /\ safes \ revealed # {}

\* C5: every sentence held after add_knowledge returns has
\* 0 <= count <= |cells|.
CountInRange ==
    \A i \in Held : /\ 0 <= knowledge[i].count
                     /\ knowledge[i].count <= Cardinality(knowledge[i].cells)

\* add_knowledge has returned with a known mine (sentences that held it were
\* shrunk and decremented) and a sentence that still counts a mine.
CountInRangeWitness ==
    /\ call.op = "add_knowledge"
    /\ mines # {}
    /\ \E i \in Held : knowledge[i].count >= 1

\* C6: mines and safes are disjoint in every state reached by add_knowledge
\* and the move selectors.
HazardsSafesDisjoint == mines \cap safes = {}

\* Both sets are non-empty after a move selector returned a move.
HazardsSafesDisjointWitness ==
    /\ call.op \in Selectors
    /\ ret # None
    /\ mines # {}
    /\ safes # {}

\* C9 (monotonicity): no call takes a cell out of mines or out of safes.
Monotonic == [][mines \subseteq mines' /\ safes \subseteq safes']_vars

\* A third call has returned, the second having left both sets non-empty.
MonotonicWitness ==
    /\ calls >= 3
    /\ Cardinality(revealed) >= 2
    /\ call.op = "make_safe_move"
    /\ ret # None
    /\ mines # {}

\* C10 (no double move): moves_made never loses a cell, and a move selector
\* never returns a cell that is in moves_made when it is called.
NoDoubleMove ==
    [][/\ moves_made \subseteq moves_made'
       /\ (call'.op \in Selectors /\ ret' # None) => ret' \notin moves_made]_vars

\* Each selector has returned a move while moves_made held other cells that
\* it could have returned otherwise.
NoDoubleMoveWitness ==
    /\ call.op = "make_random_move"
    /\ ret # None
    /\ revealed # {}
    /\ Cardinality(moves_made) >= 3

\* The sentences at positions i and j of list L are distinct, non-empty, and
\* the first's cells are a proper subset of the second's.
ProperSubsetPair(L, i, j) ==
    /\ i # j
    /\ L[i].cells # {}
    /\ L[i].cells # L[j].cells
    /\ L[i].cells \subseteq L[j].cells

\* C2 (fixpoint): in the state add_knowledge leaves, one more sweep finds
\* nothing: a simple-fact pass over every sentence marks no new cell, and for
\* every pair of sentences one of which is a proper subset of the other the
\* difference, when one cell, is already marked as its count says and, when
\* more cells, is already held as a sentence.
Fixpoint ==
    LET a == simple_facts(AI, 1)
        L == a.knowledge
    IN /\ a.mines = mines
       /\ a.safes = safes
       /\ \A i, j \in 1 .. Len(L) :
             ProperSubsetPair(L, i, j) =>
                LET diff_set == L[j].cells \ L[i].cells
                    diff_count == L[j].count - L[i].count
                IN IF Cardinality(diff_set) = 1
                   THEN /\ diff_count = 0 => diff_set \subseteq safes
                        /\ diff_count = 1 => diff_set \subseteq mines
                   ELSE sentence_in(Sentence(diff_set, diff_count), knowledge)

\* C3: no sentence held holds a cell that is in mines or in safes.
SentencesUnresolvedOnly ==
    \A i \in Held : knowledge[i].cells \cap (mines \cup safes) = {}

\* C4: no two sentences held are equal (same cells and same count).
NoDuplicateSentences ==
    \A i, j \in Held : i # j => knowledge[i] # knowledge[j]

\* C7: a call of add_knowledge that breaks the contract (the cell was
\* revealed before, or the count is below the number of neighbours already
\* in mines) changes neither mines nor safes nor the sentences.  (The claim
\* also asks for an error; add_knowledge has no raise statement and no call
\* in it can fail, so every call returns normally and what it did to the
\* state is all there is to observe.)
MisuseRefused ==
    [][(/\ call'.op = "add_knowledge"
        /\ \/ call'.cell \in revealed
           \/ call'.count < neighboring_cells(AI, call'.cell).mines)
       => /\ mines' = mines
          /\ safes' = safes
          /\ knowledge' = knowledge]_vars

\* The list that add_knowledge(cell, count) copies for subset resolution:
\* self.knowledge after steps 1-4.
known_sentences(cell, count) ==
    simple_facts(add_sentence(AI, cell, count), 1).knowledge

\* C8 (subset-diff derivation): whenever the list that add_knowledge copies
\* for subset resolution holds two sentences, one a proper subset of the
\* other with a single cell c between them, c is in safes when the counts are
\* equal and in mines when they differ by 1, once add_knowledge has returned.
SubsetDiffDerived ==
    [][call'.op = "add_knowledge" =>
          LET L == known_sentences(call'.cell, call'.count)
          IN \A i, j \in 1 .. Len(L) :
                (ProperSubsetPair(L, i, j)
                    /\ Cardinality(L[j].cells \ L[i].cells) = 1) =>
                   /\ L[j].count - L[i].count = 0 =>
                         (L[j].cells \ L[i].cells) \subseteq safes'
                   /\ L[j].count - L[i].count = 1 =>
                         (L[j].cells \ L[i].cells) \subseteq mines']_vars

\* C12 (termination): every call of add_knowledge returns: the loop of step 4
\* and the two loops of step 5 come to their ends, although step 5 appends
\* to self.knowledge while it runs.
Terminates == (frame # None) ~> (frame = None)

\* A call is in the inner loop of step 5 after that step has appended a
\* sentence to self.knowledge: the list has outgrown the copy.
TerminatesWitness ==
    /\ frame # None
    /\ frame.pc = "inner"
    /\ Len(knowledge) > Len(frame.known_sentences) + frame.i

\* C11: when the driver gives add_knowledge every move that a selector
\* returns and that holds no mine (and the game ends with a move that holds
\* one), moves_made is a subset of safes whenever add_knowledge has returned.
ProbedSubsetSafes == call.op = "add_knowledge" => moves_made \subseteq safes

\* add_knowledge has returned for the third move of a game at least (the
\* first move of a game is a random one, not known to be safe when returned).
ProbedSubsetSafesWitness ==
    /\ call.op = "add_knowledge"
    /\ Cardinality(moves_made) >= 3
    /\ mines # {}

\* C13: when the sentence that add_knowledge(cell, count) forms has count 0,
\* every neighbour of cell that was undetermined before the call (the cells
\* of that sentence) is in safes when the call returns.
ZeroCountAllSafe ==
    [][call'.op = "add_knowledge" =>
          LET s == new_sentence(AI, call'.cell, call'.count)
          IN s.count = 0 => s.cells \subseteq safes']_vars

\* A later call than the first was told count 0 and every neighbour of its
\* cell is in safes.
ZeroCountAllSafeWitness ==
    /\ call.op = "add_knowledge"
    /\ call.count = 0
    /\ Cardinality(revealed) >= 2
    /\ Adjacent(call.cell) \subseteq safes
    /\ safes \ revealed # {}

\* C14: when the sentence that add_knowledge(cell, count) forms is not empty
\* and its count is the number of its cells, each of these cells is in mines
\* when the call returns.
FullCountAllMines ==
    [][call'.op = "add_knowledge" =>
          LET s == new_sentence(AI, call'.cell, call'.count)
          IN (s.cells # {} /\ s.count = Cardinality(s.cells)) =>
                s.cells \subseteq mines']_vars

\* The second call of a game (no mine can be known after the first: a cell
\* has three neighbours at least and the board two mines) was told count 2,
\* both mines are neighbours of its cell and in mines, every other neighbour
\* is in safes, and no sentence was derived.
FullCountAllMinesWitness ==
    /\ call.op = "add_knowledge"
    /\ calls = 2
    /\ call.count = 2
    /\ mines = board
    /\ Adjacent(call.cell) \ mines \subseteq safes
    /\ Len(knowledge) = 2

\* The cell sets of the two sentences overlap and neither contains the other.
Incomparable(s1, s2) ==
    /\ ~(s1.cells \subseteq s2.cells)
    /\ ~(s2.cells \subseteq s1.cells)

\* C15: a turn of the inner loop of step 5 on a pair of sentences neither of
\* whose cell sets contains the other marks no cell as mine or safe and
\* appends no sentence (it only moves on to the next pair).
IncomparablePairNoInference ==
    [][(/\ frame # None
        /\ frame.pc = "inner"
        /\ frame.j <= Len(frame.known_sentences)
        /\ Incomparable(frame.sentence1, frame.known_sentences[frame.j]))
       => /\ mines' = mines
          /\ safes' = safes
          /\ knowledge' = knowledge
          /\ frame' # None
          /\ frame'.j = frame.j + 1]_vars

\* The inner loop has just dealt with a pair of sentences of different sizes
\* whose cell sets overlap without one containing the other.
IncomparablePairNoInferenceWitness ==
    /\ frame # None
    /\ frame.pc = "inner"
    /\ frame.j > 1
    /\ LET s1 == frame.sentence1
           s2 == frame.known_sentences[frame.j - 1]
       IN /\ Incomparable(s1, s2)
          /\ s1.cells \cap s2.cells # {}
          /\ Cardinality(s1.cells) # Cardinality(s2.cells)

\* C16: make_safe_move returns a cell of safes that was not in moves_made
\* before the call, returns None exactly when safes \ moves_made is empty,
\* leaves mines, safes and knowledge unchanged and adds nothing but the
\* returned cell to moves_made.
SafeMoveContract ==
    [][call'.op = "make_safe_move" =>
          /\ mines' = mines
          /\ safes' = safes
          /\ knowledge' = knowledge
          /\ (ret' = None) <=> (safes \ moves_made = {})
          /\ IF ret' = None
                THEN moves_made' = moves_made
                ELSE /\ ret' \in safes \ moves_made
                     /\ moves_made' = moves_made \cup {ret'}]_vars

\* make_safe_move has returned a cell inferred safe (never revealed) while
\* other cells of safes were moves made already.
SafeMoveContractWitness ==
    /\ call.op = "make_safe_move"
    /\ ret # None
    /\ ret \in safes \ revealed
    /\ moves_made \cap safes # {ret}

\* C17: make_random_move returns a cell of the board that was in neither
\* mines nor moves_made before the call, returns None exactly when every
\* cell of the board is in mines or in moves_made, and leaves mines, safes
\* and knowledge unchanged.
RandomMoveContract ==
    [][call'.op = "make_random_move" =>
          /\ mines' = mines
          /\ safes' = safes
          /\ knowledge' = knowledge
          /\ (ret' = None) <=> (Cells \subseteq mines \cup moves_made)
          /\ ret' # None => /\ ret' \in Cells
                            /\ ret' \notin mines
                            /\ ret' \notin moves_made]_vars

\* make_random_move has returned None at the end of a game: every cell of the
\* board is a known mine or a move made.
RandomMoveContractWitness ==
    /\ call.op = "make_random_move"
    /\ ret = None
    /\ mines # {}
    /\ Cells \subseteq mines \cup moves_made

\* C18: the sentence that add_knowledge(cell, count) builds has as cells the
\* cells of the board adjacent to cell that are in neither mines nor safes
\* when the call is made, and as count the count given less the number of
\* adjacent cells in mines; knowledge is left as it was when an equal
\* sentence is held and gets the sentence appended otherwise.
SentenceBuilt ==
    [][(frame = None /\ frame' # None) =>
          LET cell == call'.cell
              s == [cells |-> {c \in Adjacent(cell) :
                                  c \notin mines /\ c \notin safes},
                    count |-> call'.count
                              - Cardinality(Adjacent(cell) \cap mines)]
          IN IF \E i \in Held : knowledge[i] = s
               THEN knowledge' = knowledge
               ELSE knowledge' = Append(knowledge, s)]_vars

\* add_knowledge has just built and appended a sentence for a cell that has
\* a known mine and a known safe among its neighbours: step 4 has not begun.
SentenceBuiltWitness ==
    /\ frame # None
    /\ frame.pc = "facts"
    /\ frame.i = 1
    /\ Adjacent(call.cell) \cap mines # {}
    /\ Adjacent(call.cell) \cap safes # {}
    /\ LET s == knowledge[Len(knowledge)]
       IN /\ s.cells # {}
          /\ s.cells = Adjacent(call.cell) \ (mines \cup safes)
          /\ s.count = call.count - Cardinality(Adjacent(call.cell) \cap mines)

---------------------------------------------------------------------------
\* Direct calls of the public methods MinesweeperAI.mark_mine, on a cell that
\* holds a mine, and MinesweeperAI.mark_safe, on a cell that holds none,
\* between the reveals of a game of at most MaxCalls calls.  (add_knowledge
\* calls them on such cells only while the counts it is given are true.)

MarkMine ==
    /\ calls < MaxCalls
    /\ \E cell \in board :
          /\ SetAI(mark_mine(AI, cell))
          /\ call' = [op |-> "mark_mine", cell |-> cell, count |-> 0]
    /\ ret' = None
    /\ calls' = calls + 1
    /\ UNCHANGED <<board, revealed, frame>>

MarkSafe ==
    /\ calls < MaxCalls
    /\ \E cell \in Cells \ board :
          /\ SetAI(mark_safe(AI, cell))
          /\ call' = [op |-> "mark_safe", cell |-> cell, count |-> 0]
    /\ ret' = None
    /\ calls' = calls + 1
    /\ UNCHANGED <<board, revealed, frame>>

NextMarks == AddKnowledge \/ MarkMine \/ MarkSafe

SpecMarks == Init /\ [][NextMarks]_vars

\* Sentence s after the call: without cell and with its count lowered by
\* drop when it held cell, as it was otherwise.
Resolved(s, t, cell, drop) ==
    IF cell \in s.cells
    THEN /\ t.cells = s.cells \ {cell}
         /\ t.count = s.count - drop
    ELSE t = s

\* C19: mark_mine(cell) adds cell to mines and, in every sentence held that
\* contains it, removes the cell and lowers the count by 1; mark_safe(cell)
\* adds cell to safes and removes it from every sentence that contains it,
\* the count unchanged; sentences that do not contain the cell stay as they
\* were, and no sentence is added or dropped.
MarkContract ==
    [][/\ call'.op = "mark_mine" =>
             /\ mines' = mines \cup {call'.cell}
             /\ safes' = safes
             /\ Len(knowledge') = Len(knowledge)
             /\ \A i \in Held :
                   Resolved(knowledge[i], knowledge'[i], call'.cell, 1)
       /\ call'.op = "mark_safe" =>
             /\ safes' = safes \cup {call'.cell}
             /\ mines' = mines
             /\ Len(knowledge') = Len(knowledge)
             /\ \A i \in Held :
                   Resolved(knowledge[i], knowledge'[i], call'.cell, 0)]_vars

\* After two reveals that left two sentences sharing a cell, mark_safe was
\* called on a shared cell: both sentences lack it and keep their counts,
\* the board's counts for the revealed cells.
MarkContractWitness ==
    /\ call.op = "mark_safe"
    /\ calls = 3
    /\ Len(knowledge) = 2
    /\ \E r1, r2 \in revealed :
          /\ r1 # r2
          /\ revealed = {r1, r2}
          /\ call.cell \in Adjacent(r1) \cap Adjacent(r2)
          /\ knowledge[1] = Sentence(Adjacent(r1) \ {call.cell, r2},
                                     nearby_mines(board, r1))
          /\ knowledge[2] = Sentence(Adjacent(r2) \ {call.cell, r1},
                                     nearby_mines(board, r2))
          /\ knowledge[1].count > 0
          /\ knowledge[2].count > 0

\* C20: between calls, every sentence held (as built, shrunk in place or
\* derived from a pair of the copied list) is true of the board: its count
\* is the number of its cells that hold a mine.
SentencesTrue ==
    \A i \in Held :
       knowledge[i].count = Cardinality(knowledge[i].cells \cap board)

\* A sentence derived by step 5 is held beside the ones built from reveals,
\* a cell has been marked a mine (so sentences were shrunk in place), and
\* the last sentence still has cells, one of them a mine.
SentencesTrueWitness ==
    /\ call.op = "add_knowledge"
    /\ Len(knowledge) > Cardinality(revealed)
    /\ mines # {}
    /\ knowledge[Len(knowledge)].cells # {}
    /\ knowledge[Len(knowledge)].count >= 1

====
